---- MODULE Spec2Model ----
(***************************************************************************)
(* A model of the farmcars service: the record identifier adapter and the  *)
(* pydantic shapes of models.py, the application bootstrap of main.py      *)
(* (configuration, CORS middleware, database client lifecycle) and the     *)
(* /cars router the bootstrap mounts, whose contract is the one the        *)
(* specification gives in its section 4.3.                                 *)
(***************************************************************************)
EXTENDS Integers, Sequences, FiniteSets, TLC

VARIABLES
    env,             \* the configuration source: a function on the names that are set
    pc,              \* position in main.py, then the server's lifespan phase
    DB_URL,          \* main.py module global
    DB_NAME,         \* main.py module global
    heap,            \* the list objects main.py allocates, by reference
    origins,         \* main.py module global: a reference into heap (0: unbound)
    app,             \* the FastAPI application object
    clients,         \* every AsyncIOMotorClient constructed so far
    cors,            \* the CORSMiddleware instance of the built middleware stack
    inc,             \* bson's per-process ObjectId counter
    cars,            \* the car documents collection
    resp             \* the last request handled and the response to it

vars == <<env, pc, DB_URL, DB_NAME, heap, origins, app, clients, cors, inc,
          cars, resp>>

bootVars == <<env, DB_URL, DB_NAME, heap, origins, app, clients, cors>>

(***************************************************************************)
(* Bounds.                                                                 *)
(***************************************************************************)
MaxCars == 2         \* documents the collection holds at most
MaxInc == 2          \* identifiers the process generates at most

(***************************************************************************)
(* Record identifiers.  A string is a sequence of one-character strings, a *)
(* native ObjectId the sequence of its 12 bytes.                           *)
(***************************************************************************)
IdLen == 24

HexLower == <<"0","1","2","3","4","5","6","7","8","9","a","b","c","d","e","f">>
HexUpper == <<"0","1","2","3","4","5","6","7","8","9","A","B","C","D","E","F">>

\* the value of each hexadecimal digit, of either case
HexDigits ==
    [c \in {HexLower[n] : n \in 1..16} \cup {HexUpper[n] : n \in 1..16} |->
        (CHOOSE n \in 1..16 : HexLower[n] = c \/ HexUpper[n] = c) - 1]

IsHexDigit(c) == c \in DOMAIN HexDigits

HexVal(c) == HexDigits[c]

\* bytes.fromhex, as ObjectId(v) applies it to a 24-character string
ObjectId(v) ==
    [i \in 1..(Len(v) \div 2) |-> 16 * HexVal(v[2 * i - 1]) + HexVal(v[2 * i])]

\* ObjectId.is_valid on a string: 24 characters, each a hexadecimal digit
is_valid(v) == Len(v) = IdLen /\ \A i \in 1..Len(v) : IsHexDigit(v[i])

\* validate without the check of the digits: any string of the right length passes
validate_length_only(v) ==
    IF Len(v) # IdLen
    THEN [ok |-> FALSE, error |-> "Invalid objectid", value |-> <<>>]
    ELSE [ok |-> TRUE, error |-> "",
          value |-> [i \in 1..(Len(v) \div 2) |->
                        IF IsHexDigit(v[2 * i - 1]) /\ IsHexDigit(v[2 * i])
                        THEN 16 * HexVal(v[2 * i - 1]) + HexVal(v[2 * i]) ELSE 0]]

\* validate that drops its argument at the construction: ObjectId() is a new identifier
validate_new(v) ==
    IF ~is_valid(v)
    THEN [ok |-> FALSE, error |-> "Invalid objectid", value |-> <<>>]
    ELSE [ok |-> TRUE, error |-> "", value |-> [i \in 1..(IdLen \div 2) |-> 0]]

\* PyObjectId.validate
validate(v) ==
    IF ~is_valid(v)
    THEN [ok |-> FALSE, error |-> "Invalid objectid", value |-> <<>>]
    ELSE [ok |-> TRUE, error |-> "", value |-> ObjectId(v)]

\* an encoder that renders the 4 leading (timestamp) bytes only
str_timestamp_only(oid) ==
    [i \in 1..8 |->
        HexLower[(IF i % 2 = 1 THEN oid[(i + 1) \div 2] \div 16
                                ELSE oid[i \div 2] % 16) + 1]]

\* json_encoders = {ObjectId: str}: the 24 lowercase hexadecimal digits
str(oid) ==
    [i \in 1..(2 * Len(oid)) |->
        HexLower[(IF i % 2 = 1 THEN oid[(i + 1) \div 2] \div 16
                                ELSE oid[i \div 2] % 16) + 1]]

\* default_factory=PyObjectId: the k-th identifier the process generates
\* (4 bytes of time, 5 bytes fixed per process, a 3-byte counter)
PyObjectId(k) ==
    [i \in 1..(IdLen \div 2) |->
        IF i <= 4 THEN 101
        ELSE IF i <= 9 THEN 7
        ELSE IF i = 10 THEN (k \div 65536) % 256
        ELSE IF i = 11 THEN (k \div 256) % 256
        ELSE k % 256]

Rep(c, n) == [i \in 1..n |-> c]

\* identifier strings a client sends
Abc == <<"a", "b", "c">>
BodyIds == {Abc, Rep("a", IdLen), Rep("A", IdLen)}

PathIds ==
    {Abc, Rep("g", IdLen), Rep("A", IdLen)} \cup {str(PyObjectId(k)) : k \in 1..MaxInc}

(***************************************************************************)
(* The data model layer.  A payload is a JSON object: a function on the    *)
(* keys it carries.  A shape applied to a payload yields the validation    *)
(* errors, as (field, error type) pairs, and the validated value.          *)
(***************************************************************************)
min_length == 3

StrFields == {"brand", "make"}
IntFields == {"year", "price", "km", "cm3"}
CarFields == StrFields \cup IntFields

Prices == {1000, 2000}

Good ==
    [brand |-> "Fiat", make |-> "Panda", year |-> 2020, price |-> 1000,
     km |-> 0, cm3 |-> 999]

Short == [brand |-> "VW", make |-> "Up"]

With(p, f, v) == [g \in DOMAIN p \cup {f} |-> IF g = f THEN v ELSE p[g]]
Without(p, f) == [g \in DOMAIN p \ {f} |-> p[g]]

NoBody == [f \in {} |-> 0]

\* creation payloads: the valid ones, without and with a caller-supplied _id,
\* and the ones with a short string, a missing field, or both
CreatePayloads ==
    LET valid == {With(Good, "price", p) : p \in Prices}
    IN  valid
        \cup {With(v, "_id", i) : v \in valid, i \in BodyIds}
        \cup {With(Good, f, Short[f]) : f \in StrFields}
        \cup {Without(Good, f) : f \in CarFields}
        \cup {Without(With(Good, "brand", Short["brand"]), "year")}

\* update payloads: price, _id and a key the shape does not declare, each
\* supplied or not
UpdatePayloads ==
    LET prices == {NoBody} \cup {With(NoBody, "price", p) : p \in Prices}
        some == {NoBody, With(NoBody, "price", 2000)}
    IN  prices
        \cup {With(v, "_id", i) : v \in some, i \in {Abc, Rep("a", IdLen)}}
        \cup {With(v, "brand", "Seat") : v \in some}

\* MongoBaseModel.id with no default: an absent _id is a missing field
MongoBaseModel_id_required(p, k) ==
    IF "_id" \in DOMAIN p
    THEN LET r == validate(p["_id"])
         IN  [errors |-> IF r.ok THEN {} ELSE {<<"_id", "value_error">>},
              id |-> r.value]
    ELSE [errors |-> {<<"_id", "value_error.missing">>}, id |-> <<>>]

\* MongoBaseModel: id is the payload's _id, validated, or a generated identifier
MongoBaseModel(p, k) ==
    IF "_id" \in DOMAIN p
    THEN LET r == validate(p["_id"])
         IN  [errors |-> IF r.ok THEN {} ELSE {<<"_id", "value_error">>},
              id |-> r.value]
    ELSE [errors |-> {}, id |-> PyObjectId(k)]

\* Field(...): a required field, without the minimum length
Field_required(p, f) ==
    IF f \notin DOMAIN p THEN {<<f, "value_error.missing">>} ELSE {}

\* Field(..., min_length=3) for brand and make, Field(...) for the integers
Field(p, f) ==
    IF f \notin DOMAIN p THEN {<<f, "value_error.missing">>}
    ELSE IF f \in StrFields /\ Len(p[f]) < min_length
         THEN {<<f, "value_error.any_str.min_length">>}
         ELSE {}

\* CarBase (and CarDB, which adds nothing)
CarBase(p, k) ==
    LET base == MongoBaseModel(p, k)
        errors == base.errors \cup UNION {Field(p, f) : f \in CarFields}
    IN  [errors |-> errors,
         value |-> IF errors = {}
                   THEN [f \in {"_id"} \cup CarFields |->
                            IF f = "_id" THEN base.id ELSE p[f]]
                   ELSE [f \in {"_id"} |-> base.id]]

\* CarUpdate without its price field: the shape is the base shape alone
CarUpdate_no_price(p, k) ==
    LET base == MongoBaseModel(p, k)
    IN  [errors |-> base.errors, value |-> [f \in {"_id"} |-> base.id]]

\* CarUpdate: the base shape's id and an optional price; other keys are ignored
CarUpdate(p, k) ==
    LET base == MongoBaseModel(p, k)
    IN  [errors |-> base.errors,
         value |-> [f \in {"_id"} \cup ({"price"} \cap DOMAIN p) |->
                       IF f = "_id" THEN base.id ELSE p[f]]]

\* does validating p draw an identifier from the generator?
Generates(p) == "_id" \notin DOMAIN p

(***************************************************************************)
(* The application bootstrap, main.py, statement by statement.             *)
(***************************************************************************)
Undefined == "<undefined>"

Environment == [DB_URL |-> "mongodb://localhost:27017", DB_NAME |-> "carsApp"]

Localhost ==
    <<"http://localhost", "http://localhost:8080", "http://localhost:3000",
      "http://localhost:8000">>

RequestOrigins == {"http://localhost:3000", "https://example.org"}

NoApp ==
    [constructed |-> FALSE, user_middleware |-> <<>>, on_startup |-> {},
     on_shutdown |-> {}, routes |-> {}, mongodb_client |-> 0,
     mongodb |-> [client |-> 0, name |-> Undefined]]

NoCors ==
    [built |-> FALSE, allow_origins |-> <<>>, allow_credentials |-> FALSE,
     allow_methods |-> <<>>, allow_headers |-> <<>>]

NoResp ==
    [op |-> "none", id |-> <<>>, req |-> NoBody, origin |-> "",
     status |-> "none", errors |-> {}, detail |-> {}, body |-> {},
     client |-> 0, allowed |-> FALSE]

\* config with a default: an absent name reads as the empty string
config_default(e, key) ==
    IF key \in DOMAIN e THEN [ok |-> TRUE, value |-> e[key]]
    ELSE [ok |-> TRUE, value |-> ""]

\* decouple's config(key, cast=str) with no default: an absent name raises
config(e, key) ==
    IF key \in DOMAIN e THEN [ok |-> TRUE, value |-> e[key]]
    ELSE [ok |-> FALSE, value |-> Undefined]

Init ==
    /\ env \in {[k \in S |-> Environment[k]] : S \in SUBSET {"DB_URL", "DB_NAME"}}
    /\ pc = "DB_URL"
    /\ DB_URL = Undefined
    /\ DB_NAME = Undefined
    /\ heap = <<>>
    /\ origins = 0
    /\ app = NoApp
    /\ clients = <<>>
    /\ cors = NoCors
    /\ inc = 0
    /\ cars = {}
    /\ resp = NoResp

storeVars == <<inc, cars, resp>>

\* line 12
LoadDbUrl ==
    /\ pc = "DB_URL"
    /\ LET r == config(env, "DB_URL")
       IN  IF r.ok THEN DB_URL' = r.value /\ pc' = "DB_NAME"
                   ELSE DB_URL' = DB_URL /\ pc' = "failed"
    /\ UNCHANGED <<env, DB_NAME, heap, origins, app, clients, cors, storeVars>>

\* line 13
LoadDbName ==
    /\ pc = "DB_NAME"
    /\ LET r == config(env, "DB_NAME")
       IN  IF r.ok THEN DB_NAME' = r.value /\ pc' = "origins"
                   ELSE DB_NAME' = DB_NAME /\ pc' = "failed"
    /\ UNCHANGED <<env, DB_URL, heap, origins, app, clients, cors, storeVars>>

\* an assignment that writes the new elements into the list the name is bound to
assign_in_place(h, ref, elems) ==
    IF ref = 0 THEN [heap |-> Append(h, elems), ref |-> Len(h) + 1]
    ELSE [heap |-> [h EXCEPT ![ref] = elems], ref |-> ref]

\* origins = [...]: a new list object is allocated and the name is bound to it
assign(h, ref, elems) == [heap |-> Append(h, elems), ref |-> Len(h) + 1]

\* line 15
AssignOrigins ==
    /\ pc = "origins"
    /\ LET r == assign(heap, origins, <<"*">>)
       IN  heap' = r.heap /\ origins' = r.ref
    /\ pc' = "FastAPI"
    /\ UNCHANGED <<env, DB_URL, DB_NAME, app, clients, cors, storeVars>>

\* line 17
ConstructApp ==
    /\ pc = "FastAPI"
    /\ app' = [NoApp EXCEPT !.constructed = TRUE]
    /\ pc' = "add_middleware"
    /\ UNCHANGED <<env, DB_URL, DB_NAME, heap, origins, clients, cors, storeVars>>

\* lines 18-24: the options are kept, allow_origins as the list object passed
AddMiddleware ==
    /\ pc = "add_middleware"
    /\ app' = [app EXCEPT !.user_middleware =
                  Append(@, [cls |-> "CORSMiddleware", allow_origins |-> origins,
                             allow_credentials |-> TRUE, allow_methods |-> <<"*">>,
                             allow_headers |-> <<"*">>])]
    /\ pc' = "on_startup"
    /\ UNCHANGED <<env, DB_URL, DB_NAME, heap, origins, clients, cors, storeVars>>

\* lines 26-27
RegisterStartup ==
    /\ pc = "on_startup"
    /\ app' = [app EXCEPT !.on_startup = @ \cup {"startup_db_client"}]
    /\ pc' = "on_shutdown"
    /\ UNCHANGED <<env, DB_URL, DB_NAME, heap, origins, clients, cors, storeVars>>

\* lines 30-31
RegisterShutdown ==
    /\ pc = "on_shutdown"
    /\ app' = [app EXCEPT !.on_shutdown = @ \cup {"shutdown_db_client"}]
    /\ pc' = "include_router"
    /\ UNCHANGED <<env, DB_URL, DB_NAME, heap, origins, clients, cors, storeVars>>

\* line 34
IncludeRouter ==
    /\ pc = "include_router"
    /\ app' = [app EXCEPT !.routes = @ \cup {"/cars"}]
    /\ pc' = "origins2"
    /\ UNCHANGED <<env, DB_URL, DB_NAME, heap, origins, clients, cors, storeVars>>

\* lines 36-41
ReassignOrigins ==
    /\ pc = "origins2"
    /\ LET r == assign(heap, origins, Localhost)
       IN  heap' = r.heap /\ origins' = r.ref
    /\ pc' = "loaded"
    /\ UNCHANGED <<env, DB_URL, DB_NAME, app, clients, cors, storeVars>>

\* the server builds the middleware stack from the options add_middleware kept
BuildMiddlewareStack ==
    /\ pc = "loaded"
    /\ LET m == app.user_middleware[1]
       IN  cors' = [built |-> TRUE, allow_origins |-> heap[m.allow_origins],
                    allow_credentials |-> m.allow_credentials,
                    allow_methods |-> m.allow_methods,
                    allow_headers |-> m.allow_headers]
    /\ pc' = "startup"
    /\ UNCHANGED <<env, DB_URL, DB_NAME, heap, origins, app, clients, storeVars>>

\* AsyncIOMotorClient(DB_URL): one more client, open
AsyncIOMotorClient(cs, url) == Append(cs, [url |-> url, open |-> TRUE])

\* lines 26-29, run by the server's lifespan startup
startup_db_client ==
    /\ pc = "startup"
    /\ "startup_db_client" \in app.on_startup
    /\ clients' = AsyncIOMotorClient(clients, DB_URL)
    /\ app' = [app EXCEPT !.mongodb_client = Len(clients'),
                          !.mongodb = [client |-> Len(clients'), name |-> DB_NAME]]
    /\ pc' = "running"
    /\ UNCHANGED <<env, DB_URL, DB_NAME, heap, origins, cors, storeVars>>

\* a close that leaves the client open
close_noop(cs, ref) == cs

\* app.mongodb_client.close()
close(cs, ref) == [cs EXCEPT ![ref].open = FALSE]

\* lines 30-32, run by the server's lifespan shutdown
shutdown_db_client ==
    /\ pc = "running"
    /\ "shutdown_db_client" \in app.on_shutdown
    /\ app.mongodb_client # 0
    /\ clients' = close(clients, app.mongodb_client)
    /\ pc' = "stopped"
    /\ UNCHANGED <<env, DB_URL, DB_NAME, heap, origins, app, cors, storeVars>>

(***************************************************************************)
(* The document collection: single-document operations, atomic each.      *)
(* _id carries the collection's unique index.                              *)
(***************************************************************************)
find_one(c, oid) == {d \in c : d["_id"] = oid}

insert_one(c, doc) ==
    IF find_one(c, doc["_id"]) # {} THEN [ok |-> FALSE, coll |-> c]
    ELSE [ok |-> TRUE, coll |-> c \cup {doc}]

update_one(c, oid, set) ==
    {IF d["_id"] = oid THEN [f \in DOMAIN d |-> IF f \in DOMAIN set THEN set[f] ELSE d[f]]
     ELSE d : d \in c}

delete_one(c, oid) == {d \in c : d["_id"] # oid}

\* a record as rendered to JSON: the identifier through the ObjectId encoder
Json(d) == [d EXCEPT !["_id"] = str(@)]

\* CORSMiddleware's is_allowed_origin
is_allowed_origin(o) ==
    \/ \E i \in 1..Len(cors.allow_origins) : cors.allow_origins[i] = "*"
    \/ \E i \in 1..Len(cors.allow_origins) : cors.allow_origins[i] = o

\* the origin is kept for the requests the middleware answers itself
Response(op, id, req, o, kinds, detail, body, client) ==
    [op |-> op, id |-> id, req |-> req,
     origin |-> IF op = "options" THEN o ELSE "",
     status |-> IF kinds = {} THEN "ok" ELSE "error", errors |-> kinds,
     detail |-> detail, body |-> body, client |-> client,
     allowed |-> is_allowed_origin(o)]

\* OPTIONS: a preflight request, answered by the CORS middleware
preflight ==
    /\ pc = "running"
    /\ \E o \in RequestOrigins :
          resp' = Response("options", <<>>, NoBody, o,
                           IF is_allowed_origin(o) THEN {} ELSE {"Disallowed"},
                           {}, {}, 0)
    /\ UNCHANGED <<pc, bootVars, inc, cars>>

(***************************************************************************)
(* The /cars router.  Each handler is one action: validation of the path   *)
(* and the body, one access to the collection, the response.               *)
(***************************************************************************)
\* POST /cars/
create_car ==
    /\ pc = "running"
    /\ \E p \in CreatePayloads, o \in RequestOrigins :
          LET m == CarBase(p, inc + 1)
              r == insert_one(cars, m.value)
              db == app.mongodb.client
          IN  /\ Generates(p) => inc < MaxInc
              /\ inc' = IF Generates(p) THEN inc + 1 ELSE inc
              /\ IF m.errors # {}
                 THEN /\ resp' = Response("create", <<>>, p, o, {"Validation"},
                                          m.errors, {}, 0)
                      /\ cars' = cars
                 ELSE IF ~r.ok
                 THEN /\ resp' = Response("create", <<>>, p, o, {"ServerError"},
                                          {}, {}, db)
                      /\ cars' = cars
                 ELSE /\ Cardinality(cars) < MaxCars
                      /\ cars' = r.coll
                      /\ resp' = Response("create", <<>>, p, o, {}, {},
                                          {Json(m.value)}, db)
    /\ UNCHANGED <<pc, bootVars>>

\* GET /cars/
list_cars ==
    /\ pc = "running"
    /\ \E o \in RequestOrigins :
          resp' = Response("list", <<>>, NoBody, o, {}, {},
                           {Json(d) : d \in cars}, app.mongodb.client)
    /\ UNCHANGED <<pc, bootVars, inc, cars>>

\* what a get by id answers on collection c
get_car(c, id) ==
    LET v == validate(id)
        found == find_one(c, v.value)
    IN  IF ~v.ok
        THEN [errors |-> {"InvalidInput"}, detail |-> {<<"id", v.error>>},
              body |-> {}, db |-> FALSE]
        ELSE IF found = {}
        THEN [errors |-> {"NotFound"}, detail |-> {}, body |-> {}, db |-> TRUE]
        ELSE [errors |-> {}, detail |-> {}, body |-> {Json(d) : d \in found},
              db |-> TRUE]

\* GET /cars/{id}
show_car ==
    /\ pc = "running"
    /\ \E id \in PathIds, o \in RequestOrigins :
          LET r == get_car(cars, id)
          IN  resp' = Response("get", id, NoBody, o, r.errors, r.detail, r.body,
                               IF r.db THEN app.mongodb.client ELSE 0)
    /\ UNCHANGED <<pc, bootVars, inc, cars>>

\* PUT/PATCH /cars/{id}
update_car ==
    /\ pc = "running"
    /\ \E id \in PathIds, p \in UpdatePayloads, o \in RequestOrigins :
          LET v == validate(id)
              m == CarUpdate(p, inc + 1)
              kinds == (IF v.ok THEN {} ELSE {"InvalidInput"})
                          \cup (IF m.errors = {} THEN {} ELSE {"Validation"})
              detail == (IF v.ok THEN {} ELSE {<<"id", v.error>>}) \cup m.errors
              set == [f \in DOMAIN m.value \ {"_id"} |-> m.value[f]]
              found == find_one(cars, v.value)
              db == app.mongodb.client
          IN  /\ Generates(p) => inc < MaxInc
              /\ inc' = IF Generates(p) THEN inc + 1 ELSE inc
              /\ IF kinds # {}
                 THEN /\ resp' = Response("update", id, p, o, kinds, detail, {}, 0)
                      /\ cars' = cars
                 ELSE IF found = {}
                 THEN /\ resp' = Response("update", id, p, o, {"NotFound"}, {}, {}, db)
                      /\ cars' = cars
                 ELSE /\ cars' = update_one(cars, v.value, set)
                      /\ resp' = Response("update", id, p, o, {}, {},
                                    {Json(d) : d \in find_one(cars', v.value)}, db)
    /\ UNCHANGED <<pc, bootVars>>

\* DELETE /cars/{id}
delete_car ==
    /\ pc = "running"
    /\ \E id \in PathIds, o \in RequestOrigins :
          LET v == validate(id)
              found == IF v.ok THEN find_one(cars, v.value) ELSE {}
              db == app.mongodb.client
          IN  IF found = {}
              THEN /\ resp' = Response("delete", id, NoBody, o, {"NotFound"}, {}, {}, db)
                   /\ cars' = cars
              ELSE /\ cars' = delete_one(cars, v.value)
                   /\ resp' = Response("delete", id, NoBody, o, {}, {}, {}, db)
    /\ UNCHANGED <<pc, bootVars, inc>>

Next ==
    \/ LoadDbUrl
    \/ LoadDbName
    \/ AssignOrigins
    \/ ConstructApp
    \/ AddMiddleware
    \/ RegisterStartup
    \/ RegisterShutdown
    \/ IncludeRouter
    \/ ReassignOrigins
    \/ BuildMiddlewareStack
    \/ startup_db_client
    \/ preflight
    \/ create_car
    \/ list_cars
    \/ show_car
    \/ update_car
    \/ delete_car
    \/ shutdown_db_client

Spec == Init /\ [][Next]_vars

(***************************************************************************)
(* The claims.                                                             *)
(***************************************************************************)
Request == pc = "running" /\ pc' = "running"

\* the stored record a path identifier addresses
Addressed(d, id) == is_valid(id) /\ d["_id"] = ObjectId(id)

IsHexString(w) == Len(w) = IdLen /\ \A i \in 1..Len(w) : IsHexDigit(w[i])

IsValidCreation(p) ==
    /\ DOMAIN p = CarFields
    /\ \A f \in StrFields : Len(p[f]) >= min_length

C1_Created ==
    resp.op = "create" =>
        /\ IsValidCreation(resp.req) => resp.status = "ok"
        /\ resp.status = "ok" =>
              \E w \in resp.body :
                  /\ resp.body = {w}
                  /\ IsHexString(w["_id"])
                  /\ \A f \in CarFields : w[f] = resp.req[f]
                  /\ get_car(cars, w["_id"]).errors = {}
                  /\ get_car(cars, w["_id"]).body = {w}

C1_Answered ==
    resp.op = "get" =>
        /\ resp.errors = get_car(cars, resp.id).errors
        /\ resp.body = get_car(cars, resp.id).body

C1_Stored ==
    \A d \in cars :
        /\ get_car(cars, Json(d)["_id"]).errors = {}
        /\ get_car(cars, Json(d)["_id"]).body = {Json(d)}

C1_Kept ==
    \A d \in cars :
        \/ d \in cars'
        \/ /\ resp'.op \in {"update", "delete"}
           /\ resp'.status = "ok"
           /\ Addressed(d, resp'.id)

\* C1: a create with a valid payload (brand and make of at least 3 characters, the
\* four integers, no _id) succeeds; every successful create returns one record
\* whose _id is 24 hexadecimal digits and whose fields are the payload's; a get by
\* the _id of a stored record answers that record; and a stored record stays as it
\* is until an update or a delete addressed to it succeeds.
C1_CreateThenGet ==
    [](C1_Created /\ C1_Answered /\ C1_Stored) /\ [][C1_Kept]_vars

C1_Witness ==
    /\ resp.op = "get"
    /\ resp.status = "ok"
    /\ resp.id = str(PyObjectId(1))
    /\ Cardinality(cars) = MaxCars

Offends(p, f) ==
    \/ f \in StrFields /\ f \in DOMAIN p /\ Len(p[f]) < min_length
    \/ f \in IntFields /\ f \notin DOMAIN p

C2_Named ==
    resp.op = "create" =>
        \A f \in CarFields :
            Offends(resp.req, f) =>
                /\ resp.status = "error"
                /\ resp.errors = {"Validation"}
                /\ resp.body = {}
                /\ \E e \in resp.detail : e[1] = f
                /\ f \in IntFields => <<f, "value_error.missing">> \in resp.detail

C2_NothingStored ==
    resp'.op = "create" /\ "Validation" \in resp'.errors => cars' = cars

\* C2: a create whose brand or make is shorter than 3 characters, or whose year,
\* price, km or cm3 is missing, fails with a Validation error that names each
\* such field (a missing one as required), and leaves the collection unchanged.
C2_CreateRejected == []C2_Named /\ [][C2_NothingStored]_vars

C2_Witness ==
    /\ resp.op = "create"
    /\ "year" \notin DOMAIN resp.req
    /\ "brand" \in DOMAIN resp.req
    /\ Len(resp.req["brand"]) < min_length
    /\ cars # {}

C3_Update ==
    (/\ Request
     /\ resp'.op = "update"
     /\ "price" \in DOMAIN resp'.req
     /\ "Validation" \notin resp'.errors
     /\ \E d \in cars : Addressed(d, resp'.id))
    =>
        /\ resp'.status = "ok"
        /\ Cardinality(cars') = Cardinality(cars)
        /\ \A d \in cars :
              IF Addressed(d, resp'.id)
              THEN /\ [d EXCEPT !["price"] = resp'.req["price"]] \in cars'
                   /\ resp'.body = {Json([d EXCEPT !["price"] = resp'.req["price"]])}
              ELSE d \in cars'

C4_Adapter ==
    \A v \in PathIds \cup BodyIds :
        IF is_valid(v)
        THEN /\ validate(v).ok
             /\ validate(v).value = ObjectId(v)
             /\ 2 * Len(validate(v).value) = IdLen
        ELSE /\ ~validate(v).ok
             /\ validate(v).error = "Invalid objectid"

C5_Delete ==
    Request /\ resp'.op = "delete" =>
        \A d \in cars :
            IF Addressed(d, resp'.id)
            THEN /\ resp'.status = "ok"
                 /\ d \notin cars'
                 /\ get_car(cars', resp'.id).errors = {"NotFound"}
            ELSE d \in cars'

C5_StaysDeleted ==
    cars' # cars =>
        \A id \in PathIds :
            /\ get_car(cars, id).errors = {"NotFound"}
            /\ get_car(cars', id).errors # {"NotFound"}
            => resp'.op = "create" /\ resp'.status = "ok"

C5_Answered ==
    resp.op = "get" /\ is_valid(resp.id) /\ (\A d \in cars : ~Addressed(d, resp.id))
        => resp.errors = {"NotFound"} /\ resp.body = {}

\* C5: a delete addressed to a stored record succeeds and removes that record and
\* no other; from then on a get on that identifier fails with NotFound, until a
\* create stores a record under it.
C5_DeleteThenNotFound == []C5_Answered /\ [][C5_Delete /\ C5_StaysDeleted]_vars

C5_Witness ==
    /\ resp.op = "get"
    /\ resp.errors = {"NotFound"}
    /\ resp.id = str(PyObjectId(1))
    /\ inc >= 1
    /\ cars # {}

\* C6: no two records of the collection have the same _id, in any state that
\* creates (with or without a caller-supplied _id), updates and deletes reach.
C6_UniqueId ==
    \A d1 \in cars, d2 \in cars : Json(d1)["_id"] = Json(d2)["_id"] => d1 = d2

C6_Witness ==
    /\ resp.op = "create"
    /\ resp.errors = {"ServerError"}
    /\ "_id" \in DOMAIN resp.req
    /\ Cardinality(cars) = MaxCars

OnlyKeys(p, keys) == [f \in DOMAIN p \cap keys |-> p[f]]

C7_Shape ==
    resp.op = "update" =>
        /\ CarUpdate(resp.req, 1) = CarUpdate(OnlyKeys(resp.req, {"_id", "price"}), 1)
        /\ (/\ "price" \notin DOMAIN resp.req
            /\ "_id" \in DOMAIN resp.req => is_valid(resp.req["_id"]))
           => "Validation" \notin resp.errors

C7_NoChange ==
    Request /\ resp'.op = "update" /\ "price" \notin DOMAIN resp'.req =>
        /\ cars' = cars
        /\ \A d \in cars :
              Addressed(d, resp'.id) /\ "Validation" \notin resp'.errors =>
                  resp'.status = "ok" /\ resp'.body = {Json(d)}

Configured == {"DB_URL", "DB_NAME"} \subseteq DOMAIN env

\* C8: with DB_URL or DB_NAME absent from the configuration, loading main.py fails
\* before the application is constructed: no middleware, no hook run, no client
\* opened, no request handled, ever.
C8_FailsFast ==
    ~Configured =>
        /\ pc \in {"DB_URL", "DB_NAME", "failed"}
        /\ app = NoApp
        /\ cors = NoCors
        /\ clients = <<>>
        /\ resp = NoResp
        /\ cars = {}

C8_Witness == pc = "failed" /\ DOMAIN env = {"DB_URL"} /\ DB_URL # Undefined

AllowAll ==
    [built |-> TRUE, allow_origins |-> <<"*">>, allow_credentials |-> TRUE,
     allow_methods |-> <<"*">>, allow_headers |-> <<"*">>]

\* C9: the CORS policy the middleware applies is any origin, with credentials, all
\* methods and all headers, for every request: the list origins is bound to after
\* line 36 is the localhost list, and the middleware still holds ["*"].
C9_AllowAllOrigins ==
    /\ pc \in {"startup", "running", "stopped"} =>
          /\ cors = AllowAll
          /\ heap[origins] = Localhost
          /\ \A o \in RequestOrigins : is_allowed_origin(o)
    /\ resp.op # "none" => resp.allowed
    /\ resp.op = "options" => resp.status = "ok"

C9_Witness ==
    /\ resp.op = "options"
    /\ resp.origin = "https://example.org"
    /\ resp.allowed
    /\ heap[origins] = Localhost

C10_Lifetime ==
    /\ Len(clients) <= 1
    /\ pc \notin {"running", "stopped"} => clients = <<>> /\ resp = NoResp
    /\ pc \in {"running", "stopped"} =>
          /\ Len(clients) = 1
          /\ clients[1].url = DB_URL
          /\ app.mongodb_client = 1
          /\ app.mongodb = [client |-> 1, name |-> DB_NAME]
          /\ resp.client \in {0, 1}
          /\ clients[1].open <=> pc = "running"

C10_Steps ==
    /\ resp' # resp => pc = "running" /\ clients[app.mongodb.client].open
    /\ clients' # clients =>
          \/ pc = "startup" /\ clients = <<>> /\ pc' = "running"
          \/ /\ pc = "running" /\ pc' = "stopped"
             /\ clients[1].open /\ ~clients'[1].open
    /\ pc = "stopped" => UNCHANGED vars

\* C10: the startup hook opens the one client of the process, on DB_URL, and
\* selects DB_NAME, before any request is handled; every request is handled while
\* that client is open and uses it; the shutdown hook closes it, and it is the
\* client the startup hook opened; after that nothing uses, reopens or replaces it.
C10_OneClient == []C10_Lifetime /\ [][C10_Steps]_vars

C10_Witness ==
    /\ pc = "stopped"
    /\ resp.client = 1
    /\ ~clients[1].open
    /\ cars # {}

====
